---- MODULE Spec2Model ----
(***************************************************************************)
(* EduInsight (src/app.py): a Streamlit script that loads a pickled        *)
(* classifier and an optional scaler once per process, and on its          *)
(* Inference page turns seven numeric inputs into a learner type and an    *)
(* explanatory sentence.                                                   *)
(*                                                                         *)
(* Three specifications:                                                   *)
(*   Spec       the running app: the files on disk, the st.cache_resource  *)
(*              entry, and one script run per user interaction;            *)
(*   SpecCore   predict_learner_type and build_reason_sentence as pure     *)
(*              functions of a feature dict drawn from a bounded set;      *)
(*   SpecParse  to_float_safe as a pure function of a bounded input.       *)
(*                                                                         *)
(* Python values are records [t |-> type tag, v |-> payload]. A float is   *)
(* the exact decimal m * 10^-e, kept normalised (no trailing zero in m     *)
(* unless e = 0). A str is a sequence of one-character strings.            *)
(***************************************************************************)
EXTENDS Integers, Sequences, FiniteSets, TLC

VARIABLES
    \* ---- Spec: the running app
    modelFile,      \* what best_model.pkl holds on disk
    scalerFile,     \* what scaler.pkl holds on disk
    cache,          \* the st.cache_resource entry of load_model_and_scaler
    loads,          \* how many times the body of load_model_and_scaler ran
    firstLoad,      \* the (model, scaler) pair the first load returned
    loadedFrom,     \* the files' contents when the first load ran
    globals,        \* the script's globals model and scaler, as line 270 set them last
    page,           \* the sidebar radio's value
    feature_values, \* the seven number_input values
    shown,          \* what the latest script run rendered below the header
    runStatus,      \* "none" before any run, "ok", or "uncaught"
    predictCalls,   \* invocations of predict_learner_type in the latest run
    transformCalls, \* invocations of scaler.transform in the latest run
    clfInputs,      \* what model.predict received in the latest run
    request,        \* the latest run's button press, if any, and what the artifacts did
    prevFailed,     \* whether model.predict raised in the button press before it
    \* ---- SpecCore: the pure core
    feature_dict,   \* the dict handed to predict / explain
    coreCall,       \* which function was applied, and with what
    coreResult,     \* what it returned or raised
    \* ---- SpecParse: to_float_safe
    raw,            \* the value handed to to_float_safe
    parsed,         \* to_float_safe(raw)
    display_val     \* what the Dashboard's st.metric shows for raw

appVars == <<modelFile, scalerFile, cache, loads, firstLoad, loadedFrom, globals, page,
             feature_values, shown, runStatus, predictCalls, transformCalls,
             clfInputs, request, prevFailed>>
coreVars == <<feature_dict, coreCall, coreResult>>
parseVars == <<raw, parsed, display_val>>
vars == <<appVars, coreVars, parseVars>>

(***************************************************************************)
(* Bounds                                                                  *)
(***************************************************************************)
\* The longest string handed to to_float_safe.
MaxStrLen == 4
\* How many fields of a feature dict are missing or not a float at once.
MaxBadFields == 1

(***************************************************************************)
(* Python values                                                           *)
(***************************************************************************)
PyStr(s) == [t |-> "str", v |-> s]
PyNone == [t |-> "NoneType", v |-> <<>>]
PyNaN == [t |-> "nan", v |-> <<>>]

Abs(n) == IF n < 0 THEN -n ELSE n

RECURSIVE Pow10(_)
Pow10(e) == IF e = 0 THEN 1 ELSE 10 * Pow10(e - 1)

\* m * 10^-e with the trailing zeros of m dropped.
RECURSIVE Normalised(_, _)
Normalised(m, e) ==
    IF m = 0 THEN <<0, 0>>
    ELSE IF e > 0 /\ m % 10 = 0 THEN Normalised(m \div 10, e - 1)
    ELSE <<m, e>>

PyFloat(m, e) == [t |-> "float", v |-> Normalised(m, e)]

IsFloat(x) == x.t = "float"
IsStr(x) == x.t = "str"

\* A function result: a value, or an exception raised.
Returned(val) == [raised |-> FALSE, val |-> val, exc |-> <<>>]
Raised(type, msg) == [raised |-> TRUE, val |-> PyNone, exc |-> <<type, msg>>]

\* str(e) of an exception: its message.
ExcText(exc) == exc[2]

(***************************************************************************)
(* to_float_safe                                                           *)
(***************************************************************************)
DigitChars == <<"0", "1", "2", "3", "4", "5", "6", "7", "8", "9">>

IsDigit(c) == \E d \in 1..10 : DigitChars[d] = c

DigitVal(c) == (CHOOSE d \in 1..10 : DigitChars[d] = c) - 1

RECURSIVE DigitsToInt(_)
DigitsToInt(s) ==
    IF s = <<>> THEN 0
    ELSE 10 * DigitsToInt(SubSeq(s, 1, Len(s) - 1)) + DigitVal(s[Len(s)])

\* pd.isna of a scalar.
pd_isna(x) == x.t \in {"NoneType", "nan"}

\* str.replace(old, new) for one-character old and new.
str_replace(s, old, new) == [i \in 1..Len(s) |-> IF s[i] = old THEN new ELSE s[i]]

\* str.strip(): float() ignores leading and trailing whitespace.
str_strip(s) ==
    LET keep == {i \in 1..Len(s) : s[i] # " "}
        lo == CHOOSE i \in keep : \A j \in keep : i <= j
        hi == CHOOSE i \in keep : \A j \in keep : j <= i
    IN IF keep = {} THEN <<>> ELSE SubSeq(s, lo, hi)

\* float(s) of a str written with digits, point, comma, sign, space and
\* letters that spell no exponent, inf or nan: surrounding spaces dropped, an
\* optional sign, then digits with at most one point and at least one digit.
float_of_str(s) ==
    LET st == str_strip(s)
        signed == st # <<>> /\ st[1] \in {"-", "+"}
        body == IF signed THEN Tail(st) ELSE st
        points == {i \in 1..Len(body) : body[i] = "."}
        wellFormed == /\ \A i \in 1..Len(body) : IsDigit(body[i]) \/ body[i] = "."
                      /\ Cardinality(points) <= 1
                      /\ \E i \in 1..Len(body) : IsDigit(body[i])
        p == IF points = {} THEN Len(body) + 1 ELSE CHOOSE i \in points : TRUE
        whole == SubSeq(body, 1, p - 1)
        frac == SubSeq(body, p + 1, Len(body))
        mag == DigitsToInt(whole \o frac)
    IN IF ~wellFormed
       THEN Raised("ValueError", "could not convert string to float")
       ELSE Returned(PyFloat(IF signed /\ st[1] = "-" THEN -mag ELSE mag, Len(frac)))

\* float(x).
float(x) ==
    CASE IsFloat(x) -> Returned(x)
      [] IsStr(x) -> float_of_str(x.v)
      [] x.t = "nan" -> Returned(x)
      [] OTHER -> Raised("TypeError", "float() argument must be a string or a number")

\* A faulty variant: the decimal comma is not normalised.
to_float_safe_no_replace(x, default) ==
    IF pd_isna(x) THEN default
    ELSE LET r == float(x) IN IF r.raised THEN default ELSE r.val

to_float_safe(x, default) ==
    IF pd_isna(x) THEN default
    ELSE LET y == IF IsStr(x) THEN PyStr(str_replace(x.v, ",", ".")) ELSE x
             r == float(y)
         IN IF r.raised THEN default ELSE r.val

\* float.is_integer().
is_integer(x) == x.v[2] = 0

\* int(x) of a float: truncation towards zero.
trunc(x) ==
    LET m == x.v[1]
        q == Abs(m) \div Pow10(x.v[2])
    IN IF m < 0 THEN -q ELSE q

(***************************************************************************)
(* Configuration                                                           *)
(***************************************************************************)
None == "None"

FEATURE_COLS ==
    << "avg_study_duration", "avg_submission_rating", "avg_exam_score",
       "total_submissions", "total_tracking_events", "total_completed_modules",
       "days_since_last_active" >>

LABEL_DISPLAY ==
    0 :> "Consistent Learner" @@ 1 :> "Fast Learner" @@ 2 :> "Reflective Learner"

\* dict.get(key, default).
dict_get(d, key, default) == IF key \in DOMAIN d THEN d[key] ELSE default

\* str(n) of an integer.
RECURSIVE NatToStr(_)
NatToStr(n) ==
    IF n < 10 THEN DigitChars[n + 1]
    ELSE NatToStr(n \div 10) \o DigitChars[(n % 10) + 1]

str(n) == IF n < 0 THEN "-" \o NatToStr(-n) ELSE NatToStr(n)

(***************************************************************************)
(* The opaque artifacts. What scaler.transform and model.predict do is not *)
(* in this repository: each call either raises or returns, as the          *)
(* environment chooses. A feature array records how many transforms it     *)
(* went through and by which scaler; its numbers after a transform are     *)
(* unknown.                                                                *)
(***************************************************************************)
Codes == {-1, 0, 1, 2, 3, 10, 99}

ArtifactErrors ==
    { <<"ValueError", "X has 7 features, but the estimator is expecting 5 features as input.">>,
      <<"AttributeError", "'dict' object has no attribute 'predict'">> }

Gives(code) == [raised |-> FALSE, code |-> code, exc |-> <<>>]
Throws(exc) == [raised |-> TRUE, code |-> 0, exc |-> exc]

TransformOutcomes == {Gives(0)} \cup {Throws(e) : e \in ArtifactErrors}
PredictOutcomes == {Gives(c) : c \in Codes} \cup {Throws(e) : e \in ArtifactErrors}
Envs == [transform : TransformOutcomes, predict : PredictOutcomes]

\* np.array([[...]]): the row as given, nothing substituted.
np_array(row) == [scaled |-> 0, by |-> None, row |-> row]

\* scaler.transform(x), when it returns.
transform(scaler, x) == [x EXCEPT !.scaled = @ + 1, !.by = scaler]

(***************************************************************************)
(* predict_learner_type                                                    *)
(***************************************************************************)
\* A display string: the pieces it is the concatenation of.
Text(pieces) == [t |-> "str", v |-> pieces]

\* What one invocation did: its result, and the calls it made.
Outcome(res, nTransform, inputs) ==
    [res |-> res, transformCalls |-> nTransform, clfInputs |-> inputs]

\* A faulty variant: the array is scaled a second time.
scaled_twice(scaler, x) ==
    IF scaler # None THEN transform(scaler, transform(scaler, x)) ELSE x

\* Lines 106-107, when transform returns.
scaled(scaler, x) == IF scaler # None THEN transform(scaler, x) ELSE x

\* A faulty variant: LABEL_DISPLAY[pred], a lookup with no default.
label_of_no_default(pred) ==
    IF pred \in DOMAIN LABEL_DISPLAY
    THEN Returned(Text(<<LABEL_DISPLAY[pred]>>))
    ELSE Raised("KeyError", str(pred))

\* Line 110.
label_of(pred) == Returned(Text(<<dict_get(LABEL_DISPLAY, pred, str(pred))>>))

predict_learner_type(model, scaler, d, env) ==
    LET absent == {i \in 1..Len(FEATURE_COLS) : FEATURE_COLS[i] \notin DOMAIN d}
        first == CHOOSE i \in absent : \A j \in absent : i <= j
        x0 == np_array([i \in 1..Len(FEATURE_COLS) |-> d[FEATURE_COLS[i]]])
        x == scaled(scaler, x0)
    IN \* line 105: feature_dict[c] raises KeyError on an absent column
       IF absent # {}
       THEN Outcome(Raised("KeyError", "'" \o FEATURE_COLS[first] \o "'"), 0, <<>>)
       \* lines 106-107
       ELSE IF scaler # None /\ env.transform.raised
       THEN Outcome(Raised(env.transform.exc[1], env.transform.exc[2]), 1, <<>>)
       \* line 109
       ELSE IF model = None
       THEN Outcome(Raised("AttributeError", "'NoneType' object has no attribute 'predict'"),
                    x.scaled, <<>>)
       ELSE IF env.predict.raised
       THEN Outcome(Raised(env.predict.exc[1], env.predict.exc[2]), x.scaled, <<x>>)
       \* line 110
       ELSE Outcome(label_of(env.predict.code), x.scaled, <<x>>)

(***************************************************************************)
(* build_reason_sentence                                                   *)
(***************************************************************************)
\* int(x).
py_int(x) ==
    LET st == str_strip(x.v)
        signed == st # <<>> /\ st[1] \in {"-", "+"}
        body == IF signed THEN Tail(st) ELSE st
        mag == DigitsToInt(body)
    IN CASE IsFloat(x) -> Returned(trunc(x))
         [] x.t = "nan" -> Raised("ValueError", "cannot convert float NaN to integer")
         [] IsStr(x) ->
              IF body # <<>> /\ \A i \in 1..Len(body) : IsDigit(body[i])
              THEN Returned(IF st[1] = "-" THEN -mag ELSE mag)
              ELSE Raised("ValueError", "invalid literal for int() with base 10")
         [] OTHER -> Raised("TypeError", "int() argument must be a string, a bytes-like object or a real number, not 'NoneType'")

\* n written with at least `width` digits.
RECURSIVE ZeroPadded(_, _)
ZeroPadded(n, width) ==
    IF width <= 1 THEN NatToStr(n)
    ELSE IF n < Pow10(width - 1) THEN "0" \o ZeroPadded(n, width - 1)
    ELSE NatToStr(n)

\* f"{x:.<places>f}". The floats formatted have at most `places` decimals, so
\* no digit is rounded away.
format_f(x, places) ==
    LET m == x.v[1]
        units == Abs(m) * Pow10(places - x.v[2])
        digits == NatToStr(units \div Pow10(places)) \o "."
                      \o ZeroPadded(units % Pow10(places), places)
    IN CASE IsFloat(x) -> Returned(IF m < 0 THEN "-" \o digits ELSE digits)
         [] x.t = "nan" -> Returned("nan")
         [] IsStr(x) -> Raised("ValueError", "Unknown format code 'f' for object of type 'str'")
         [] OTHER -> Raised("TypeError", "unsupported format string passed to NoneType.__format__")

\* f"{n}" of an int already converted.
format_int(n) == Returned(str(n))

Lit(s) == Returned(s)

\* An f-string: its pieces are evaluated left to right, and the first one
\* that raises ends it.
fstring(pieces) ==
    LET bad == {i \in 1..Len(pieces) : pieces[i].raised}
        first == CHOOSE i \in bad : \A j \in bad : i <= j
    IN IF bad # {} THEN Raised(pieces[first].exc[1], pieces[first].exc[2])
       ELSE Returned(Text([i \in 1..Len(pieces) |-> pieces[i].val]))

build_reason_sentence(learner_type, user_data) ==
    LET zero == PyFloat(0, 0)
        avg_study_duration == dict_get(user_data, "avg_study_duration", zero)
        avg_submission_rating == dict_get(user_data, "avg_submission_rating", zero)
        avg_exam_score == dict_get(user_data, "avg_exam_score", zero)
        ints == << py_int(dict_get(user_data, "total_submissions", zero)),
                   py_int(dict_get(user_data, "total_tracking_events", zero)),
                   py_int(dict_get(user_data, "total_completed_modules", zero)),
                   py_int(dict_get(user_data, "days_since_last_active", zero)) >>
        badInt == {i \in 1..4 : ints[i].raised}
        firstBad == CHOOSE i \in badInt : \A j \in badInt : i <= j
        total_tracking_events == ints[2].val
        total_completed_modules == ints[3].val
        days_since_last_active == ints[4].val
    IN \* lines 117-120
       IF badInt # {} THEN Raised(ints[firstBad].exc[1], ints[firstBad].exc[2])
       \* lines 122-132
       ELSE IF learner_type.v = <<"Fast Learner">> THEN fstring(<<
           Lit("Kamu dikategorikan sebagai **Fast Learner** karena mampu menyelesaikan banyak materi dalam waktu relatif singkat (**"),
           format_int(total_completed_modules),
           Lit("** sub-modul selesai). Durasi belajar rata-rata sekitar **"),
           format_f(avg_study_duration, 1),
           Lit(" menit** per sesi dengan tingkat aktivitas yang cukup tinggi (**"),
           format_int(total_tracking_events),
           Lit("** interaksi).\n\nDari sisi akademik, nilai ujian rata-rata **"),
           format_f(avg_exam_score, 1),
           Lit("** menunjukkan bahwa kecepatan belajar tidak mengurangi pemahaman materi.\n\n**Saran:** Pertahankan efisiensi belajarmu, namun tetap luangkan waktu untuk mereview materi agar pemahaman tetap konsisten dalam jangka panjang.") >>)
       \* lines 134-144
       ELSE IF learner_type.v = <<"Consistent Learner">> THEN fstring(<<
           Lit("Kamu termasuk **Consistent Learner** karena menunjukkan pola belajar yang stabil dan teratur. Kamu aktif mengakses materi (**"),
           format_int(total_tracking_events),
           Lit("** aktivitas) dan menyelesaikan **"),
           format_int(total_completed_modules),
           Lit("** sub-modul secara bertahap.\n\nNilai submission rata-rata **"),
           format_f(avg_submission_rating, 1),
           Lit("** dan nilai ujian **"),
           format_f(avg_exam_score, 1),
           Lit("** mencerminkan performa akademik yang stabil. Kamu juga relatif konsisten dalam aktivitas belajar dengan jeda terakhir aktif sekitar **"),
           format_int(days_since_last_active),
           Lit(" hari**.\n\n**Saran:** Pertahankan konsistensi ini karena sudah membentuk dasar pemahaman yang kuat.") >>)
       \* lines 146-156
       ELSE IF learner_type.v = <<"Reflective Learner">> THEN fstring(<<
           Lit("Kamu dikategorikan sebagai **Reflective Learner** karena cenderung belajar dengan ritme lebih lambat dan selektif. Jumlah materi yang diselesaikan masih terbatas (**"),
           format_int(total_completed_modules),
           Lit("** sub-modul), namun kamu menghabiskan waktu belajar sekitar **"),
           format_f(avg_study_duration, 1),
           Lit(" menit** per sesi.\n\nAktivitas belajar (**"),
           format_int(total_tracking_events),
           Lit("** interaksi) dan nilai ujian (**"),
           format_f(avg_exam_score, 1),
           Lit("**) menunjukkan bahwa kamu masih berada pada tahap eksplorasi.\n\n**Saran:** Cobalah meningkatkan konsistensi belajar dengan menyelesaikan lebih banyak materi secara bertahap agar pemahaman yang kamu bangun dapat tercermin pada hasil evaluasi.") >>)
       \* lines 158-161; everything after this return is unreachable
       ELSE fstring(<<
           Lit("Kamu mendapatkan kategori **"),
           Lit(learner_type.v[1]),
           Lit("** berdasarkan kombinasi pola aktivitas belajar dan performa akademik.") >>)
(***************************************************************************)
(* load_model_and_scaler and its st.cache_resource entry                   *)
(***************************************************************************)
\* What a file on disk holds: nothing, bytes that do not unpickle, or a
\* pickled artifact (named by the artifact).
ModelFiles == {"missing", "corrupt", "clf_A"}
ScalerFiles == {"missing", "corrupt", "scaler_S"}

\* joblib.load(path) / pickle.load(f): both unpickle the same bytes.
unpickle(file) ==
    IF file = "corrupt"
    THEN Raised("UnpicklingError", "invalid load key, 'x'.")
    ELSE Returned(file)

\* A rendered element.
Element(kind, body) == [kind |-> kind, body |-> body]

Loaded(model, scaler, rendered) ==
    [raised |-> FALSE, ran |-> TRUE, model |-> model, scaler |-> scaler,
     rendered |-> rendered, exc |-> <<>>]

load_model_and_scaler(path_model, path_scaler) ==
    LET m == unpickle(path_model)
        sc == unpickle(path_scaler)
        \* lines 77-85
        model == IF path_model # "missing" /\ ~m.raised THEN m.val ELSE None
        rendered == IF path_model # "missing" /\ m.raised
                    THEN <<Element("error", <<"Gagal load model: ", ExcText(m.exc)>>)>>
                    ELSE <<>>
        \* lines 88-98
        scaler == IF path_scaler # "missing" /\ ~sc.raised THEN sc.val ELSE None
    IN Loaded(model, scaler, rendered)

EmptyCache == [hit |-> FALSE, model |-> None, scaler |-> None, rendered |-> <<>>]

\* A faulty variant: the decorator is missing, every call runs the body.
cached_load_no_memo(entry, path_model, path_scaler) ==
    load_model_and_scaler(path_model, path_scaler)

\* @st.cache_resource: the body runs when the entry is empty, and what it
\* returns is kept with the elements it rendered; a later call returns the
\* entry and renders those elements again.
cached_load(entry, path_model, path_scaler) ==
    IF entry.hit
    THEN [raised |-> FALSE, ran |-> FALSE, model |-> entry.model,
          scaler |-> entry.scaler, rendered |-> entry.rendered, exc |-> <<>>]
    ELSE load_model_and_scaler(path_model, path_scaler)

(***************************************************************************)
(* The script: setup, sidebar and the two pages                            *)
(***************************************************************************)
Pages == {"Dashboard", "Inference"}

Cols == {FEATURE_COLS[i] : i \in 1..Len(FEATURE_COLS)}

\* st.number_input(label, value=0.0)
Defaults == [c \in Cols |-> PyFloat(0, 0)]

NoRequest == [pressed |-> FALSE, env |-> [transform |-> Gives(0), predict |-> Gives(0)]]

\* What the part of a run below the page header did.
Rendered(elements, status, nPredict, nTransform, inputs) ==
    [elements |-> elements, status |-> status, predictCalls |-> nPredict,
     transformCalls |-> nTransform, clfInputs |-> inputs]

\* Lines 360-364: what a prediction that returned is followed by.
Result(p, e) ==
    << Element("success", <<"Hasil Prediksi: **", p.res.val.v[1], "**">>),
       Element("subheader", <<"Kenapa kamu mendapat kategori ini?">>) >>
    \o IF e.raised
       THEN <<Element("error", <<"Gagal melakukan prediksi: ", ExcText(e.exc)>>)>>
       ELSE <<Element("write", e.val.v)>>

\* A faulty variant: the handler has no try / except.
handled_no_except(p, values) ==
    IF p.res.raised
    THEN Rendered(<<>>, "uncaught", 1, p.transformCalls, p.clfInputs)
    ELSE Rendered(Result(p, build_reason_sentence(p.res.val, values)),
                  "ok", 1, p.transformCalls, p.clfInputs)

\* Lines 357-367, p being what predict_learner_type did.
handled(p, values) ==
    IF p.res.raised
    THEN Rendered(<<Element("error", <<"Gagal melakukan prediksi: ", ExcText(p.res.exc)>>)>>,
                  "ok", 1, p.transformCalls, p.clfInputs)
    ELSE Rendered(Result(p, build_reason_sentence(p.res.val, values)),
                  "ok", 1, p.transformCalls, p.clfInputs)

\* Lines 356-367.
button_handler(model, scaler, values, env) ==
    handled(predict_learner_type(model, scaler, values, env), values)

\* A faulty variant: the form is rendered whatever model is.
inference_ready_unchecked(model) == TRUE

\* Line 318, negated: the else branch is taken.
inference_ready(model) == model # None

\* Lines 321-354: the expander and the seven number inputs, then the button.
Form ==
    << Element("expander", <<"Penjelasan fitur yang digunakan model">>),
       Element("subheader", <<"Input Nilai Fitur">>),
       Element("number_inputs", FEATURE_COLS),
       Element("button", <<"Jalankan Prediksi">>) >>

\* Lines 315-367.
inference_page(model, scaler, values, pressed, env) ==
    LET header == <<Element("header", <<"Inference Model">>)>>
        h == button_handler(model, scaler, values, env)
    IN IF ~inference_ready(model)
       THEN Rendered(header \o <<Element("warning",
                <<"Model belum siap digunakan. Pastikan file model dan scaler sudah benar.">>)>>,
                "ok", 0, 0, <<>>)
       ELSE IF pressed
       THEN [h EXCEPT !.elements = header \o Form \o @]
       ELSE Rendered(header \o Form, "ok", 0, 0, <<>>)

\* Lines 292-309, the student's metrics left out.
dashboard_page ==
    Rendered(<<Element("header", <<"Dashboard Per Siswa">>)>>, "ok", 0, 0, <<>>)

HasKind(elements, kind) == \E i \in 1..Len(elements) : elements[i].kind = kind

\* One run of the script, top to bottom, for one user interaction.
Script(pg, values, req) ==
    \E call \in {cached_load(cache, modelFile, scalerFile)} :
    \E body \in {IF pg = "Dashboard" THEN dashboard_page
                 ELSE inference_page(call.model, call.scaler, values, req.pressed, req.env)} :
       /\ page' = pg
       /\ feature_values' = values
       /\ request' = req
       /\ prevFailed' = IF request.pressed THEN request.env.predict.raised ELSE prevFailed
       /\ loads' = IF call.ran THEN loads + 1 ELSE loads
       /\ firstLoad' = IF call.ran /\ loads = 0 THEN <<call.model, call.scaler>> ELSE firstLoad
       /\ loadedFrom' = IF call.ran /\ loads = 0 THEN <<modelFile, scalerFile>> ELSE loadedFrom
       /\ UNCHANGED <<modelFile, scalerFile>>
       /\ IF call.raised
          THEN /\ cache' = cache
               /\ globals' = globals
               /\ shown' = <<>>
               /\ runStatus' = "uncaught"
               /\ predictCalls' = 0
               /\ transformCalls' = 0
               /\ clfInputs' = <<>>
          ELSE /\ cache' = [hit |-> TRUE, model |-> call.model, scaler |-> call.scaler,
                           rendered |-> call.rendered]
               /\ globals' = [model |-> call.model, scaler |-> call.scaler]
               /\ shown' = call.rendered \o body.elements
               /\ runStatus' = body.status
               /\ predictCalls' = body.predictCalls
               /\ transformCalls' = body.transformCalls
               /\ clfInputs' = body.clfInputs

(***************************************************************************)
(* Spec: the user's interactions and the files changing on disk            *)
(***************************************************************************)
\* The number inputs the user edits, and what is typed into each; the other
\* inputs stay at their default.
Edited == {"avg_submission_rating", "avg_exam_score", "total_completed_modules"}

Typed(c) ==
    CASE c = "avg_submission_rating" -> PyFloat(42, 1)
      [] c = "avg_exam_score" -> PyFloat(880, 1)
      [] c = "total_completed_modules" -> PyFloat(15, 0)

\* A browser opens the app: the script runs with every widget at its default.
Connect ==
    /\ Script("Dashboard", Defaults, NoRequest)
    /\ UNCHANGED <<coreVars, parseVars>>

\* The sidebar radio. A number input that a run does not render loses its
\* value.
SelectPage(pg) ==
    /\ runStatus # "none"
    /\ pg # page
    /\ Script(pg, Defaults, NoRequest)
    /\ UNCHANGED <<coreVars, parseVars>>

\* The Dashboard's selectbox: a rerun of the Dashboard.
SelectStudent ==
    /\ runStatus # "none"
    /\ page = "Dashboard"
    /\ Script(page, feature_values, NoRequest)
    /\ UNCHANGED <<coreVars, parseVars>>

SetFeature(c, value) ==
    /\ HasKind(shown, "number_inputs")
    /\ feature_values[c] # value
    /\ Script(page, [feature_values EXCEPT ![c] = value], NoRequest)
    /\ UNCHANGED <<coreVars, parseVars>>

\* The artifacts are called in order: when the first call raises, the second
\* is not made and its outcome is left at Gives(0).
PressButton(env) ==
    /\ HasKind(shown, "button")
    /\ (cache.scaler # None /\ env.transform.raised) => env.predict = Gives(0)
    /\ cache.scaler = None => env.transform = Gives(0)
    /\ Script(page, feature_values, [pressed |-> TRUE, env |-> env])
    /\ UNCHANGED <<coreVars, parseVars>>

\* best_model.pkl or scaler.pkl is replaced, removed or damaged on disk.
WriteModelFile(file) ==
    /\ file # modelFile
    /\ modelFile' = file
    /\ UNCHANGED <<scalerFile, cache, loads, firstLoad, loadedFrom, globals, page, feature_values,
                   shown, runStatus, predictCalls, transformCalls, clfInputs, request,
                   prevFailed, coreVars, parseVars>>

WriteScalerFile(file) ==
    /\ file # scalerFile
    /\ scalerFile' = file
    /\ UNCHANGED <<modelFile, cache, loads, firstLoad, loadedFrom, globals, page, feature_values,
                   shown, runStatus, predictCalls, transformCalls, clfInputs, request,
                   prevFailed, coreVars, parseVars>>

NoCall == [fn |-> "none", model |-> None, scaler |-> None, env |-> NoRequest.env,
           label |-> Text(<<>>)]

NoResult == Outcome(Returned(Text(<<>>)), 0, <<>>)

Unset == [t |-> "unset", v |-> <<>>]

InitApp ==
    /\ modelFile \in ModelFiles
    /\ scalerFile \in ScalerFiles
    /\ cache = EmptyCache
    /\ loads = 0
    /\ firstLoad = <<None, None>>
    /\ loadedFrom = <<"missing", "missing">>
    /\ globals = [model |-> None, scaler |-> None]
    /\ page = "Dashboard"
    /\ feature_values = Defaults
    /\ shown = <<>>
    /\ runStatus = "none"
    /\ predictCalls = 0
    /\ transformCalls = 0
    /\ clfInputs = <<>>
    /\ request = NoRequest
    /\ prevFailed = FALSE
    /\ feature_dict = Defaults
    /\ coreCall = NoCall
    /\ coreResult = NoResult
    /\ raw = PyNone
    /\ parsed = Unset
    /\ display_val = Unset

Next ==
    \/ Connect
    \/ \E pg \in Pages : SelectPage(pg)
    \/ SelectStudent
    \/ \E c \in Edited : \E value \in {PyFloat(0, 0), Typed(c)} : SetFeature(c, value)
    \/ \E env \in Envs : PressButton(env)
    \/ \E file \in ModelFiles : WriteModelFile(file)
    \/ \E file \in ScalerFiles : WriteScalerFile(file)

Spec == InitApp /\ [][Next]_vars

(***************************************************************************)
(* SpecCore: predict_learner_type or build_reason_sentence applied, once,  *)
(* to a feature dict                                                       *)
(***************************************************************************)
\* Floats with at most one decimal, as tenths.
Tenths(n) == PyFloat(n, 1)

Samples(c) ==
    CASE c = "avg_study_duration" -> {Tenths(0), Tenths(450)}
      [] c = "avg_submission_rating" -> {Tenths(15), Tenths(42), Tenths(45)}
      [] c = "avg_exam_score" -> {Tenths(600), Tenths(800), Tenths(880), Tenths(900)}
      [] c = "total_submissions" -> {Tenths(100)}
      [] c = "total_tracking_events" -> {Tenths(1200)}
      [] c = "total_completed_modules" -> {Tenths(150), Tenths(155)}
      [] c = "days_since_last_active" -> {Tenths(20), Tenths(-5)}

\* A field that is no float: absent, None, the empty string, or text.
BadKinds == {"absent", "None", "empty", "text"}

BadValue(kind) ==
    CASE kind = "None" -> PyNone
      [] kind = "empty" -> PyStr(<<>>)
      [] kind = "text" -> PyStr(<<"a", "b", "c">>)

\* The dict that has `kinds` in place of the floats of `base`.
Spoiled(base, kinds) ==
    [c \in {k \in Cols : k \notin DOMAIN kinds \/ kinds[k] # "absent"} |->
        IF c \in DOMAIN kinds THEN BadValue(kinds[c]) ELSE base[c]]

InitCore ==
    /\ \E v1 \in Samples(FEATURE_COLS[1]), v2 \in Samples(FEATURE_COLS[2]),
          v3 \in Samples(FEATURE_COLS[3]), v4 \in Samples(FEATURE_COLS[4]),
          v5 \in Samples(FEATURE_COLS[5]), v6 \in Samples(FEATURE_COLS[6]),
          v7 \in Samples(FEATURE_COLS[7]) :
        \E bad \in {b \in SUBSET Cols : Cardinality(b) <= MaxBadFields} :
          \E kinds \in [bad -> BadKinds] :
            feature_dict = Spoiled(
                [c \in Cols |-> LET i == CHOOSE j \in 1..7 : FEATURE_COLS[j] = c
                                IN <<v1, v2, v3, v4, v5, v6, v7>>[i]],
                kinds)
    /\ coreCall = NoCall
    /\ coreResult = NoResult
    /\ modelFile = "missing"
    /\ scalerFile = "missing"
    /\ cache = EmptyCache
    /\ loads = 0
    /\ firstLoad = <<None, None>>
    /\ loadedFrom = <<"missing", "missing">>
    /\ globals = [model |-> None, scaler |-> None]
    /\ page = "Dashboard"
    /\ feature_values = Defaults
    /\ shown = <<>>
    /\ runStatus = "none"
    /\ predictCalls = 0
    /\ transformCalls = 0
    /\ clfInputs = <<>>
    /\ request = NoRequest
    /\ prevFailed = FALSE
    /\ raw = PyNone
    /\ parsed = Unset
    /\ display_val = Unset

\* learner_type = predict_learner_type(model, scaler, feature_dict)
CorePredict(scaler, env) ==
    /\ coreCall = NoCall
    /\ (scaler # None /\ env.transform.raised) => env.predict = Gives(0)
    /\ scaler = None => env.transform = Gives(0)
    /\ coreCall' = [fn |-> "predict", model |-> "clf_A", scaler |-> scaler, env |-> env,
                    label |-> Text(<<>>)]
    /\ coreResult' = predict_learner_type("clf_A", scaler, feature_dict, env)
    /\ UNCHANGED <<feature_dict, appVars, parseVars>>

\* The learner types explained: the three of LABEL_DISPLAY and an unmapped code's.
Labels == {"Consistent Learner", "Fast Learner", "Reflective Learner", "99"}

\* explanation = build_reason_sentence(learner_type, feature_dict)
CoreExplain(label) ==
    /\ coreCall = NoCall
    /\ coreCall' = [fn |-> "explain", model |-> None, scaler |-> None, env |-> NoRequest.env,
                    label |-> Text(<<label>>)]
    /\ coreResult' = Outcome(build_reason_sentence(Text(<<label>>), feature_dict), 0, <<>>)
    /\ UNCHANGED <<feature_dict, appVars, parseVars>>

NextCore ==
    \/ \E scaler \in {None, "scaler_S"} : \E env \in Envs : CorePredict(scaler, env)
    \/ \E label \in Labels : CoreExplain(label)

SpecCore == InitCore /\ [][NextCore]_vars

(***************************************************************************)
(* SpecParse: to_float_safe applied to a value                             *)
(***************************************************************************)
Alphabet == {"1", "2", "5", ",", ".", "-", " ", "a"}

Strings == UNION {[1..n -> Alphabet] : n \in 0..MaxStrLen}

PyInt(n) == [t |-> "int", v |-> <<n>>]

InitParse ==
    /\ \/ \E s \in Strings : raw = PyStr(s)
       \/ raw \in {PyNone, PyNaN}
       \/ raw \in {PyFloat(125, 1), PyFloat(3, 0)}
    /\ parsed = Unset
    /\ display_val = Unset
    /\ modelFile = "missing"
    /\ scalerFile = "missing"
    /\ cache = EmptyCache
    /\ loads = 0
    /\ firstLoad = <<None, None>>
    /\ loadedFrom = <<"missing", "missing">>
    /\ globals = [model |-> None, scaler |-> None]
    /\ page = "Dashboard"
    /\ feature_values = Defaults
    /\ shown = <<>>
    /\ runStatus = "none"
    /\ predictCalls = 0
    /\ transformCalls = 0
    /\ clfInputs = <<>>
    /\ request = NoRequest
    /\ prevFailed = FALSE
    /\ feature_dict = Defaults
    /\ coreCall = NoCall
    /\ coreResult = NoResult

\* to_float_safe(x)
Convert ==
    /\ parsed = Unset
    /\ parsed' = to_float_safe(raw, PyFloat(0, 0))
    /\ UNCHANGED <<raw, display_val, appVars, coreVars>>

\* Lines 307-308: the value st.metric shows for a cell of the student's row.
Metric ==
    /\ display_val = Unset
    /\ LET val == to_float_safe(raw, PyNone)
       IN display_val' = IF IsFloat(val) /\ is_integer(val) THEN PyInt(trunc(val)) ELSE raw
    /\ UNCHANGED <<raw, parsed, appVars, coreVars>>

NextParse == Convert \/ Metric

SpecParse == InitParse /\ [][NextParse]_vars

(***************************************************************************)
(* Properties                                                              *)
(***************************************************************************)
LastShown == shown[Len(shown)]

\* The button was pressed and model.predict raised.
PredictRaised == request.pressed /\ request.env.predict.raised

\* The button was pressed and model.predict returned a class code.
PredictReturned ==
    /\ request.pressed
    /\ ~request.env.predict.raised
    /\ ~(globals.scaler # None /\ request.env.transform.raised)

\* C1: when model.predict raises in a button press, the run ends normally
\* with the error message "Gagal melakukan prediksi: <exception text>" as its
\* last element, predict_learner_type and model.predict were each invoked
\* once, neither the predicted label nor the explanation is shown, the form
\* with its button is still rendered, and a later press whose predict returns
\* shows its result.
C1_PredictFailureReported ==
    /\ PredictRaised =>
        /\ runStatus = "ok"
        /\ LastShown = Element("error",
               <<"Gagal melakukan prediksi: ", request.env.predict.exc[2]>>)
        /\ predictCalls = 1
        /\ Len(clfInputs) = 1
        /\ ~HasKind(shown, "success")
        /\ ~HasKind(shown, "write")
        /\ HasKind(shown, "button")
    /\ (prevFailed /\ PredictReturned) =>
        /\ runStatus = "ok"
        /\ HasKind(shown, "success")
        /\ LastShown.kind = "write"

\* A press that is served after a press in which model.predict raised.
C1_Witness ==
    /\ prevFailed
    /\ PredictReturned
    /\ HasKind(shown, "success")

\* C2: when best_model.pkl was missing or did not unpickle at the first load,
\* the load returned model = None without raising, and from then on no run
\* invokes predict_learner_type or model.predict; the Inference page ends
\* with the "Model belum siap digunakan" warning and renders neither the
\* inputs, the button nor a result.
C2_NoModelNoPrediction ==
    (loads >= 1 /\ loadedFrom[1] \in {"missing", "corrupt"}) =>
        /\ runStatus = "ok"
        /\ cache.hit
        /\ cache.model = None
        /\ globals.model = None
        /\ predictCalls = 0
        /\ clfInputs = <<>>
        /\ page = "Inference" =>
            /\ LastShown = Element("warning",
                   <<"Model belum siap digunakan. Pastikan file model dan scaler sudah benar.">>)
            /\ ~HasKind(shown, "number_inputs")
            /\ ~HasKind(shown, "button")
            /\ ~HasKind(shown, "success")

\* The Inference page after a load that failed, the file since repaired.
C2_Witness ==
    /\ loads >= 1
    /\ loadedFrom[1] = "corrupt"
    /\ modelFile = "clf_A"
    /\ page = "Inference"
    /\ HasKind(shown, "warning")

\* The row predict_learner_type builds from the number inputs.
RawRow == [i \in 1..Len(FEATURE_COLS) |-> feature_values[FEATURE_COLS[i]]]

\* C3: the scaler is None exactly when scaler.pkl was missing or did not
\* unpickle at the first load. In a button press, model.predict receives the
\* row of the seven inputs: transformed exactly once, by the loaded scaler,
\* when there is one (and not at all when the transform raises), and
\* untransformed when there is none, in which case the press shows its result
\* whenever model.predict returns.
C3_ScaledOnceOrRaw ==
    /\ loads >= 1 => (globals.scaler = None <=> loadedFrom[2] \in {"missing", "corrupt"})
    /\ (request.pressed /\ globals.scaler # None) =>
        /\ transformCalls = 1
        /\ request.env.transform.raised => clfInputs = <<>>
        /\ ~request.env.transform.raised =>
            clfInputs = <<[scaled |-> 1, by |-> globals.scaler, row |-> RawRow]>>
    /\ (request.pressed /\ globals.scaler = None) =>
        /\ transformCalls = 0
        /\ clfInputs = <<[scaled |-> 0, by |-> None, row |-> RawRow]>>
        /\ ~request.env.predict.raised =>
            /\ HasKind(shown, "success")
            /\ ~HasKind(shown, "error")

\* A press with a scaler loaded and inputs typed in, the classifier reached.
C3_Witness ==
    /\ request.pressed
    /\ globals.scaler = "scaler_S"
    /\ feature_values["avg_exam_score"] = Typed("avg_exam_score")
    /\ Len(clfInputs) = 1
    /\ clfInputs[1].scaled = 1

\* The label each class code is displayed as.
DisplayedAs(code) ==
    CASE code = 0 -> "Consistent Learner"
      [] code = 1 -> "Fast Learner"
      [] code = 2 -> "Reflective Learner"
      [] code = 99 -> "99"
      [] code = 10 -> "10"
      [] code = 3 -> "3"
      [] code = -1 -> "-1"

\* predict_learner_type was applied and model.predict returned a class code.
CoreClassified ==
    /\ coreCall.fn = "predict"
    /\ Len(coreResult.clfInputs) = 1
    /\ ~coreCall.env.predict.raised

\* C5: whatever class code model.predict returns, predict_learner_type
\* returns a label and does not raise: 0, 1 and 2 give "Consistent Learner",
\* "Fast Learner" and "Reflective Learner", and a code outside the table gives
\* its decimal string (99 gives "99").
C5_EveryCodeHasLabel ==
    CoreClassified =>
        /\ ~coreResult.res.raised
        /\ coreResult.res.val = Text(<<DisplayedAs(coreCall.env.predict.code)>>)

\* Code 99 was returned and mapped.
C5_Witness ==
    /\ CoreClassified
    /\ coreCall.env.predict.code = 99
    /\ coreResult.res.val = Text(<<"99">>)

\* C9: the body of load_model_and_scaler runs at most once; once a run has
\* happened it has run exactly once, and the cache entry and the globals
\* model and scaler are the pair that load returned, whatever the files hold
\* now and also when that pair has model = None; a press that reaches
\* model.predict used that pair's scaler.
C9_LoadedOnce ==
    /\ loads <= 1
    /\ runStatus # "none" =>
        /\ loads = 1
        /\ cache.hit
        /\ <<cache.model, cache.scaler>> = firstLoad
        /\ <<globals.model, globals.scaler>> = firstLoad
        /\ firstLoad = << load_model_and_scaler(loadedFrom[1], loadedFrom[2]).model,
                          load_model_and_scaler(loadedFrom[1], loadedFrom[2]).scaler >>
    /\ (request.pressed /\ Len(clfInputs) = 1) => clfInputs[1].by = firstLoad[2]

\* A press served from the cached pair after both files changed on disk.
C9_Witness ==
    /\ loads = 1
    /\ request.pressed
    /\ modelFile # loadedFrom[1]
    /\ scalerFile # loadedFrom[2]
    /\ HasKind(shown, "success")

\* s with every comma written as a point.
WithPoints(s) == [i \in 1..Len(s) |-> IF s[i] = "," THEN "." ELSE s[i]]

HasComma(s) == \E i \in 1..Len(s) : s[i] = ","

\* C10: a string with a decimal comma converts to what float() gives for the
\* same string written with a decimal point (the default 0.0 when that is no
\* number); "12,5" converts to 12.5.
C10_CommaAsPoint ==
    (parsed # Unset /\ IsStr(raw) /\ HasComma(raw.v)) =>
        /\ parsed = IF float(PyStr(WithPoints(raw.v))).raised
                    THEN PyFloat(0, 0)
                    ELSE float(PyStr(WithPoints(raw.v))).val
        /\ raw.v = <<"1", "2", ",", "5">> => parsed = PyFloat(125, 1)

\* "12,5" was converted, to 12.5.
C10_Witness ==
    /\ raw = PyStr(<<"1", "2", ",", "5">>)
    /\ parsed = PyFloat(125, 1)

(***************************************************************************)
(* Statements of the specification that the code does not meet             *)
(***************************************************************************)
\* x < y for two floats.
Less(x, y) == x.v[1] * Pow10(y.v[2]) < y.v[1] * Pow10(x.v[2])

HasPiece(text, piece) == \E i \in 1..Len(text.v) : text.v[i] = piece

\* The fields of the feature dict that are absent, None, empty or text.
BadFields ==
    {i \in 1..Len(FEATURE_COLS) :
        \/ FEATURE_COLS[i] \notin DOMAIN feature_dict
        \/ ~IsFloat(feature_dict[FEATURE_COLS[i]])}

\* C4: for a feature dict in which a field is missing, empty or non-numeric,
\* neither predict_learner_type nor build_reason_sentence raises, and the row
\* model.predict receives has 0.0 in that field's position.
C4_BadFieldsDefaulted ==
    (coreCall.fn # "none" /\ BadFields # {}) =>
        /\ ~coreResult.res.raised
        /\ \A k \in 1..Len(coreResult.clfInputs) : \A i \in BadFields :
               coreResult.clfInputs[k].row[i] = PyFloat(0, 0)

\* build_reason_sentence was applied to this label and a dict of floats.
Explained(label) ==
    /\ coreCall.fn = "explain"
    /\ coreCall.label = Text(<<label>>)
    /\ BadFields = {}

\* C6: for "Fast Learner" the explanation carries the cautionary text
\* (speed sacrificing depth) exactly when avg_submission_rating < 2.0 or
\* avg_exam_score < 70.0, and the affirming text otherwise.
C6_FastLearnerBranches ==
    Explained("Fast Learner") =>
        LET cautionary == \/ Less(feature_dict["avg_submission_rating"], PyFloat(2, 0))
                          \/ Less(feature_dict["avg_exam_score"], PyFloat(70, 0))
        IN /\ ~coreResult.res.raised
           /\ cautionary <=> HasPiece(coreResult.res.val,
                  "**) masih cenderung lebih rendah. Ini bisa jadi tanda bahwa kecepatanmu sedikit mengorbankan pemahaman mendalam.\n\n**Saran:** Coba luangkan lebih banyak waktu untuk membaca ulang materi sebelum pindah ke sub-modul berikutnya, dan manfaatkan fitur review atau latihan tambahan untuk memperkuat konsep yang dirasa masih lemah.")
           /\ ~cautionary <=> HasPiece(coreResult.res.val,
                  " Kecepatan belajarmu diimbangi dengan hasil yang cukup baik, baik dari sisi nilai submission maupun ujian.\n\n**Saran:** Pertahankan ritme belajar ini dan coba tantang dirimu dengan modul atau proyek yang lebih kompleks, misalnya dengan studi kasus nyata atau tugas yang lebih menantang.")

\* C7: for "Consistent Learner" the explanation carries the mentor
\* suggestion exactly when avg_exam_score >= 85.0 and
\* avg_submission_rating >= 4.0, and the maintain-pace suggestion otherwise.
C7_ConsistentLearnerBranches ==
    Explained("Consistent Learner") =>
        LET mentor == /\ ~Less(feature_dict["avg_exam_score"], PyFloat(85, 0))
                      /\ ~Less(feature_dict["avg_submission_rating"], PyFloat(4, 0))
        IN /\ ~coreResult.res.raised
           /\ mentor <=> HasPiece(coreResult.res.val,
                  " Performa belajar seperti ini sangat impresif.\n\n**Saran:** Kamu bisa mulai mencoba peran sebagai mentor kecil-kecilan, misalnya membantu teman yang kesulitan atau membuat rangkuman materi. Mengajarkan orang lain adalah salah satu cara terbaik untuk semakin memperdalam pemahamanmu.")
           /\ ~mentor <=> HasPiece(coreResult.res.val,
                  " Kamu sudah memiliki keseimbangan yang baik antara frekuensi belajar dan pemahaman materi.\n\n**Saran:** Terus pertahankan pola belajarmu. Jika ada topik yang terasa lebih sulit, jangan ragu untuk mengulang sub-modul terkait atau mencari sumber belajar tambahan seperti dokumentasi resmi, video, atau diskusi dengan komunitas.")

\* The feature values of the end-to-end scenario.
Scenario ==
    [c \in Cols |->
        CASE c = "avg_study_duration" -> PyFloat(45, 0)
          [] c = "avg_submission_rating" -> PyFloat(42, 1)
          [] c = "avg_exam_score" -> PyFloat(88, 0)
          [] c = "total_submissions" -> PyFloat(10, 0)
          [] c = "total_tracking_events" -> PyFloat(120, 0)
          [] c = "total_completed_modules" -> PyFloat(15, 0)
          [] c = "days_since_last_active" -> PyFloat(2, 0)]

\* C8: for the scenario's feature values, a classifier returning code 0
\* makes predict_learner_type return "Consistent Learner", and the
\* explanation of that label writes the module count as "15" and the exam
\* score as "88.00".
C8_EndToEnd ==
    feature_dict = Scenario =>
        /\ (CoreClassified /\ coreCall.env.predict.code = 0) =>
               coreResult.res.val = Text(<<"Consistent Learner">>)
        /\ Explained("Consistent Learner") =>
            /\ ~coreResult.res.raised
            /\ HasPiece(coreResult.res.val, "15")
            /\ HasPiece(coreResult.res.val, "88.00")
====
